---- MODULE Spec2Model ----
(***************************************************************************)
(* The conversational plan-generation engine of conscience                 *)
(* (services/plan_service.py), the session notifier                        *)
(* (services/websocket_service.py) and the WebSocket handler that drives   *)
(* them (api/plan.py).                                                     *)
(*                                                                         *)
(* One engine run is a LangGraph StateGraph compiled with a MemorySaver:   *)
(* the checkpoint of thread session_id holds the PlanGenerationState and   *)
(* the node that runs next.  Each node execution is one step of the model; *)
(* the conditional edge after evaluate is part of the evaluate step.       *)
(***************************************************************************)
EXTENDS Integers, Sequences, FiniteSets, TLC

VARIABLES
    handler,             \* websocket_generate_plan: where each connection's handler is
    active_connections,  \* WebsocketService.active_connections: the websocket bound to each id
    sent,                \* messages written to the session's channel during the current call
    pc,                  \* checkpoint: the node the thread runs next / how the run ended
    steps,               \* supersteps executed by the current graph.ainvoke
    messages,            \* PlanGenerationState.messages
    questions_asked,     \* PlanGenerationState.questions_asked
    needs_more_info,     \* PlanGenerationState.needs_more_info
    current_questions,   \* PlanGenerationState.current_questions
    plan_title,          \* PlanGenerationState.plan_title
    plan_content,        \* PlanGenerationState.plan_content
    resume_value,        \* the value Command(resume=...) hands to interrupt()
    llm,                 \* the node and outcome of the session's latest model call
    MAX_FOLLOWUP_QUESTIONS, \* settings.MAX_FOLLOWUP_QUESTIONS, fixed per deployment
    rounds_completed,    \* history: question rounds resumed since the latest develop_plan
    always_more,         \* history: since the latest develop_plan every evaluation asked
                         \* for more and every question list was non-empty {id, text}
    round_questions_emitted, \* history: question notifications handed to send_message
                         \* since the pending questions were generated
    run_first,           \* history: the first notification written since the latest
                         \* develop_plan
    calls,               \* at the grain of awaits: entry-point calls running for the id
    writers,             \* at the grain of awaits: send_message calls of the id that
                         \* hold the websocket they looked up and await send_text
    last_round,          \* history: the round carried by the question notifications
                         \* written last to the session's channel
    evaluated_gaps,      \* history: the "gaps" of the update the latest evaluate_node
                         \* of the run returned, <<>> when it returned none
    prompt_gaps,         \* history: the gaps the latest generate_questions_node of the
                         \* run put into its prompt
    send_websocket,      \* the service alone: the websocket an unfinished send_message
                         \* for the id looked up, None when there is none
    close_websocket,     \* the service alone: the websocket an unfinished
                         \* disconnect_websocket for the id looked up
    llm_response,        \* extract_json: the model response handed to the extractor
    mapping,             \* extract_json: the JSON object the response was built around
                         \* (<<>> when the response is an arbitrary text)
    extracted            \* extract_json: what the call returned or raised

vars == <<handler, active_connections, sent, pc, steps, messages, questions_asked,
          needs_more_info, current_questions, plan_title, plan_content,
          resume_value, llm, MAX_FOLLOWUP_QUESTIONS, rounds_completed, always_more,
          round_questions_emitted, run_first, calls, writers,
          last_round, evaluated_gaps, prompt_gaps, send_websocket, close_websocket,
          llm_response, mapping, extracted>>

await_vars == <<calls, writers>>

extractor_vars == <<llm_response, mapping, extracted>>

prompt_vars == <<last_round, evaluated_gaps, prompt_gaps>>

service_vars == <<send_websocket, close_websocket>>

history_vars == <<rounds_completed, always_more, round_questions_emitted, run_first>>

state_vars == <<messages, questions_asked, needs_more_info, current_questions,
                plan_title, plan_content>>

---------------------------------------------------------------------------
(* Bounds and constants *)

\* the largest round cap a deployment configures in the model
MaxRoundCap == 2

\* supersteps one graph.ainvoke may run before GraphRecursionError
RecursionLimit == 25

\* the longest question list the question writer returns in the model
MaxQuestions == 2

SessionIds == {"s1", "s2"}
\* the sessions that connect under Spec
Live == {"s1"}

Prompts == {"p1", "p2"}
Replies == {"r1"}
None == "None"

\* the websocket objects, and the one each connection's handler is given
Channels == {"w1", "w2"}
websocket_of(s) == IF s = "s1" THEN "w1" ELSE "w2"

\* active_connections.get(session_id) finds a websocket
Bound(s) == active_connections[s] # None

\* a connect_websocket that stores the websocket under every id
register_all(reg, s, w) == [t \in SessionIds |-> w]

\* active_connections[session_id] = websocket
register(reg, s, w) == [reg EXCEPT ![s] = w]

\* active_connections.pop(session_id, None)
pop(reg, s) == [reg EXCEPT ![s] = None]

QuestionTexts == <<"q1", "q2", "q3">>
QuestionList(n) == [i \in 1..n |-> [id |-> i, text |-> QuestionTexts[i]]]
QuestionLists == {QuestionList(n) : n \in 0..MaxQuestions}
\* a question list whose item lacks the "text" key
QuestionsWithoutText == <<[id |-> 1, text |-> None]>>
HaveText(qs) == \A i \in 1..Len(qs) : qs[i].text # None

\* the mappings the plan writer's output can hold: title and content,
\* either of them possibly missing
PlanResults == {[title |-> "T", content |-> "C"],
                [title |-> None, content |-> "C"],
                [title |-> "T", content |-> None]}

NodePcs == {"evaluate", "generate_questions", "wait_for_response", "resuming",
            "generate_plan"}

---------------------------------------------------------------------------
(* Notifications *)

Status(st) == [type |-> "status", status |-> st]
Question(q, r) == [type |-> "question", question |-> q,
                   round |-> r, max_rounds |-> MAX_FOLLOWUP_QUESTIONS]
DocumentUpdate(t, c) == [type |-> "document.update", title |-> t, content |-> c,
                         version |-> 1]
ReadyForApproval == [type |-> "ready_for_approval"]
TaskError(e) == [type |-> "task.error", error |-> e]

\* a send_message that writes to the websocket it last had when the id has
\* no binding
send_message_unchecked(s, msgs) ==
    IF ~Bound(s)
    THEN /\ sent' = [sent EXCEPT ![s] = @ \o msgs]
         /\ UNCHANGED active_connections
    ELSE \E k \in 0..Len(msgs) :
            /\ sent' = [sent EXCEPT ![s] = @ \o SubSeq(msgs, 1, k)]
            /\ active_connections' =
                   IF k = Len(msgs) THEN active_connections
                   ELSE pop(active_connections, s)

\* a send_message that writes to every bound channel
send_message_broadcast(s, msgs) ==
    /\ sent' = [t \in SessionIds |->
                   IF Bound(t) THEN sent[t] \o msgs ELSE sent[t]]
    /\ UNCHANGED active_connections

\* WebsocketService.send_message, applied to the messages one step sends in
\* order: a session with no binding gets nothing; a write that fails removes
\* the binding, so the messages after it are dropped too.
send_message(s, msgs) ==
    IF ~Bound(s)
    THEN UNCHANGED <<sent, active_connections>>
    ELSE \E k \in 0..Len(msgs) :
            /\ sent' = [sent EXCEPT ![s] = @ \o SubSeq(msgs, 1, k)]
            /\ active_connections' =
                   IF k = Len(msgs) THEN active_connections
                   ELSE pop(active_connections, s)

\* a send_message without its except clause: the failed write raises into
\* the node that sent
write_failure_propagates(p) == "raising"

\* send_message's except clause: the failure is logged, the binding removed,
\* and the caller goes on to p as after a write that succeeded
after_write_failure(p) == p

\* a write of session s failed in this step
WriteFailed(s) == Bound(s) /\ ~Bound(s)'

\* where the sending node goes next
Continue(s, p) == IF WriteFailed(s) THEN after_write_failure(p) ELSE p

\* WebsocketService.send_error
send_error(s, e) == send_message(s, <<TaskError(e)>>)

---------------------------------------------------------------------------
(* Pure parts of the nodes *)

\* route_after_evaluation with the limit compared by > instead of >=
route_after_evaluation_gt(qa, nmi) ==
    IF qa > MAX_FOLLOWUP_QUESTIONS THEN "generate_plan"
    ELSE IF nmi THEN "generate_questions"
    ELSE "generate_plan"

\* route_after_evaluation with the information check ahead of the limit check
route_after_evaluation_needs_first(qa, nmi) ==
    IF nmi THEN "generate_questions"
    ELSE IF qa >= MAX_FOLLOWUP_QUESTIONS THEN "generate_plan"
    ELSE "generate_plan"

\* route_after_evaluation with the limit hit one round early
route_after_evaluation_early(qa, nmi) ==
    IF qa + 1 >= MAX_FOLLOWUP_QUESTIONS THEN "generate_plan"
    ELSE IF nmi THEN "generate_questions"
    ELSE "generate_plan"

\* PlanService.route_after_evaluation
route_after_evaluation(qa, nmi) ==
    IF qa >= MAX_FOLLOWUP_QUESTIONS THEN "generate_plan"
    ELSE IF nmi THEN "generate_questions"
    ELSE "generate_plan"

\* What the evaluator's call can come to: a mapping with needs_more_info
\* true or false, a mapping without the key, text the extractor rejects,
\* or a failed model call.
EvalOutcomes == {"more", "enough", "no_key", "malformed", "unavailable"}

\* evaluate_node asking for more information when its call or extraction fails
evaluate_result_fail_closed(o) ==
    CASE o = "more" -> TRUE
      [] o = "enough" -> FALSE
      [] o = "no_key" -> FALSE
      [] OTHER -> TRUE

\* evaluate_node's update of needs_more_info
evaluate_result(o) ==
    CASE o = "more" -> TRUE
      [] o = "enough" -> FALSE
      [] o = "no_key" -> FALSE       \* result.get("needs_more_info", False)
      [] OTHER -> FALSE              \* except (JSONDecodeError, Exception)

\* the gap lists an evaluator's answer can hold
GapLists == {<<>>, <<"g1">>}

\* The "gaps" of evaluate_node's update, as a sequence of at most one list:
\* result.get("gaps", []) when the answer was extracted, no such key in the
\* update of the except branch.
evaluate_gaps(o) ==
    IF o \in {"more", "enough", "no_key"} THEN {<<g>> : g \in GapLists} ELSE {<<>>}

\* the keys of PlanGenerationState: the channels of the graph; a key of a
\* node's update that is none of them is not written to the state
StateKeys == {"messages", "questions_asked", "needs_more_info", "current_questions",
              "plan_title", "plan_content", "session_id", "user_id"}

DefaultGaps == <<"General clarification needed">>

\* state.get("gaps", ["General clarification needed"]) in
\* generate_questions_node
state_get_gaps(s) ==
    IF "gaps" \in StateKeys /\ evaluated_gaps[s] # <<>>
    THEN evaluated_gaps[s][1]
    ELSE DefaultGaps

\* What the question writer's call can come to.
QuestionOutcomes ==
    [kind : {"ok"}, questions : QuestionLists \cup {QuestionsWithoutText}]
        \cup [kind : {"malformed", "unavailable"}, questions : {<<>>}]

\* What the plan step can come to: the plan writer's mapping stored and
\* signed, or a failure of the model call, the extractor, the upload or the
\* signing.
PlanOutcomes ==
    [kind : {"ok"}, result : PlanResults]
        \cup [kind : {"malformed", "unavailable", "upload_failed", "sign_failed"},
              result : {[title |-> None, content |-> None]}]

\* generate_plan_node taking the title without a default
plan_title_of_no_default(r) == r.title

\* result.get("title", "Untitled Plan"), result.get("content", "")
plan_title_of(r) == IF r.title = None THEN "Untitled Plan" ELSE r.title
plan_content_of(r) == IF r.content = None THEN "" ELSE r.content

\* the assistant message recording the asked questions, and the reply
QuestionsMessage(qs) ==
    [role |-> "assistant",
     content |-> <<"Questions:">> \o [i \in 1..Len(qs) |-> qs[i].text]]
UserMessage(text) == [role |-> "user", content |-> <<text>>]

\* generate_plan_node catching extraction failures only
plan_node_raises_malformed_only(o) == o.kind = "malformed"

\* generate_plan_node's except clause is entered: the model call, the
\* extractor, the upload or the signing raised
plan_node_raises(o) == o.kind # "ok"

\* generate_plan_node sending the document before the URL is signed
plan_node_messages_document_first(o) ==
    IF o.kind \in {"ok", "sign_failed"}
    THEN <<Status("generating"),
           DocumentUpdate(plan_title_of(o.result), plan_content_of(o.result))>>
         \o (IF o.kind = "ok" THEN <<ReadyForApproval>>
             ELSE <<TaskError("Failed to generate plan")>>)
    ELSE <<Status("generating"), TaskError("Failed to generate plan")>>

\* generate_plan_node asking for approval before it shows the document
plan_node_messages_ready_first(o) ==
    IF o.kind = "ok"
    THEN <<Status("generating"), ReadyForApproval,
           DocumentUpdate(plan_title_of(o.result), plan_content_of(o.result))>>
    ELSE <<Status("generating"), TaskError("Failed to generate plan")>>

\* generate_plan_node sending the document once more in place of the
\* approval prompt
plan_node_messages_document_twice(o) ==
    IF o.kind = "ok"
    THEN <<Status("generating"),
           DocumentUpdate(plan_title_of(o.result), plan_content_of(o.result)),
           DocumentUpdate(plan_title_of(o.result), plan_content_of(o.result))>>
    ELSE <<Status("generating"), TaskError("Failed to generate plan")>>

\* what generate_plan_node sends, in order: the status first; the document
\* and the approval prompt after upload and signing; the error from the
\* except clause
plan_node_messages(o) ==
    IF o.kind = "ok"
    THEN <<Status("generating"),
           DocumentUpdate(plan_title_of(o.result), plan_content_of(o.result)),
           ReadyForApproval>>
    ELSE <<Status("generating"), TaskError("Failed to generate plan")>>

\* wait_for_response_node suspending whatever the list holds
no_questions_never(qs) == FALSE

\* wait_for_response_node: if not questions
no_questions(qs) == qs = <<>>

\* wait_for_response_node recording the reply without the questions asked
resume_messages_reply_only(msgs, qs, reply) == msgs \o <<UserMessage(reply)>>

\* wait_for_response_node putting the new messages ahead of the transcript
resume_messages_prepended(msgs, qs, reply) ==
    <<QuestionsMessage(qs), UserMessage(reply)>> \o msgs

\* wait_for_response_node's update of messages on resume
resume_messages(msgs, qs, reply) ==
    msgs \o <<QuestionsMessage(qs), UserMessage(reply)>>

\* interrupt() keeping the entry point's caller waiting for the reply
interrupt_blocks(h) == h

\* interrupt(): graph.ainvoke returns and the handler is back at receive_json
interrupt_returns(h) == "receive"

\* wait_for_response_node leaving questions_asked as it was
next_questions_asked_stuck(qa) == qa

\* wait_for_response_node's update of questions_asked
next_questions_asked(qa) == qa + 1

\* question notifications that count the rounds from 0
question_notifications_from_zero(qs, qa) == [i \in 1..Len(qs) |-> Question(qs[i], qa)]

\* the notifications of a question round: "round": state["questions_asked"] + 1
question_notifications(qs, qa) == [i \in 1..Len(qs) |-> Question(qs[i], qa + 1)]

\* what a notification is, for the history of a run
Tag(m) == IF m.type = "status" THEN m.status ELSE m.type

\* history: the round of the question notifications written in this step
RoundSent(s) ==
    last_round' = [last_round EXCEPT ![s] =
                      IF Len(sent'[s]) > Len(sent[s]) THEN questions_asked[s] + 1 ELSE @]

\* history: the first notification written in the run
FirstNotification(s) ==
    run_first' = [run_first EXCEPT ![s] =
                     IF @ = "none" /\ Len(sent'[s]) > Len(sent[s])
                     THEN Tag(sent'[s][Len(sent[s]) + 1]) ELSE @]

---------------------------------------------------------------------------
\* the program after construction: no connection, no thread, no checkpoint
Start ==
    /\ handler = [s \in SessionIds |-> "none"]
    /\ active_connections = [s \in SessionIds |-> None]
    /\ sent = [s \in SessionIds |-> <<>>]
    /\ pc = [s \in SessionIds |-> "none"]
    /\ steps = [s \in SessionIds |-> 0]
    /\ messages = [s \in SessionIds |-> <<>>]
    /\ questions_asked = [s \in SessionIds |-> 0]
    /\ needs_more_info = [s \in SessionIds |-> FALSE]
    /\ current_questions = [s \in SessionIds |-> None]
    /\ plan_title = [s \in SessionIds |-> None]
    /\ plan_content = [s \in SessionIds |-> None]
    /\ resume_value = [s \in SessionIds |-> None]
    /\ llm = [s \in SessionIds |-> [node |-> "none", kind |-> "none"]]
    /\ MAX_FOLLOWUP_QUESTIONS \in 0..MaxRoundCap
    /\ rounds_completed = [s \in SessionIds |-> 0]
    /\ always_more = [s \in SessionIds |-> TRUE]
    /\ round_questions_emitted = [s \in SessionIds |-> 0]
    /\ run_first = [s \in SessionIds |-> "none"]
    /\ calls = [s \in SessionIds |-> 0]
    /\ writers = [s \in SessionIds |-> 0]
    /\ last_round = [s \in SessionIds |-> 0]
    /\ evaluated_gaps = [s \in SessionIds |-> <<>>]
    /\ prompt_gaps = [s \in SessionIds |-> <<>>]
    /\ send_websocket = [s \in SessionIds |-> None]
    /\ close_websocket = [s \in SessionIds |-> None]

Init ==
    /\ Start
    /\ llm_response = <<>>
    /\ mapping = <<>>
    /\ extracted = [outcome |-> "not called", value |-> <<>>]

---------------------------------------------------------------------------
(* The WebSocket handler and the entry points *)

\* websocket_generate_plan up to its first receive: connect_websocket binds
\* the fresh session id to the channel.
connect_websocket(s) ==
    /\ handler[s] = "none"
    /\ handler' = [handler EXCEPT ![s] = "receive"]
    /\ active_connections' = register(active_connections, s, websocket_of(s))
    /\ UNCHANGED <<MAX_FOLLOWUP_QUESTIONS, service_vars, extractor_vars, prompt_vars, await_vars, history_vars, sent, pc, steps, state_vars, resume_value, llm>>

\* A start_plan message: develop_plan puts initial_state into the thread and
\* the graph starts at its entry point, whatever the thread held before.
develop_plan(s, prompt) ==
    /\ handler[s] = "receive"
    /\ handler' = [handler EXCEPT ![s] = "develop_plan"]
    /\ messages' = [messages EXCEPT ![s] = <<UserMessage(prompt)>>]
    /\ questions_asked' = [questions_asked EXCEPT ![s] = 0]
    /\ needs_more_info' = [needs_more_info EXCEPT ![s] = FALSE]
    /\ current_questions' = [current_questions EXCEPT ![s] = None]
    /\ plan_title' = [plan_title EXCEPT ![s] = None]
    /\ plan_content' = [plan_content EXCEPT ![s] = None]
    /\ pc' = [pc EXCEPT ![s] = "evaluate"]
    /\ steps' = [steps EXCEPT ![s] = 0]
    /\ sent' = [sent EXCEPT ![s] = <<>>]
    /\ rounds_completed' = [rounds_completed EXCEPT ![s] = 0]
    /\ always_more' = [always_more EXCEPT ![s] = TRUE]
    /\ round_questions_emitted' = [round_questions_emitted EXCEPT ![s] = 0]
    /\ run_first' = [run_first EXCEPT ![s] = "none"]
    /\ evaluated_gaps' = [evaluated_gaps EXCEPT ![s] = <<>>]
    /\ prompt_gaps' = [prompt_gaps EXCEPT ![s] = <<>>]
    /\ UNCHANGED <<MAX_FOLLOWUP_QUESTIONS, service_vars, extractor_vars, last_round, await_vars,
                   active_connections, resume_value, llm>>

\* A user_response message for a thread parked at interrupt(): update_plan
\* resumes the graph, which runs wait_for_response again from its top.
update_plan(s, response) ==
    /\ handler[s] = "receive"
    /\ pc[s] = "suspended"
    /\ handler' = [handler EXCEPT ![s] = "update_plan"]
    /\ resume_value' = [resume_value EXCEPT ![s] = response]
    /\ pc' = [pc EXCEPT ![s] = "resuming"]
    /\ steps' = [steps EXCEPT ![s] = 0]
    /\ sent' = [sent EXCEPT ![s] = <<>>]
    /\ UNCHANGED <<MAX_FOLLOWUP_QUESTIONS, service_vars, extractor_vars, prompt_vars, await_vars, history_vars, active_connections, state_vars, llm>>

\* A user_response message for a thread that has finished: the graph has no
\* task to run, ainvoke returns the stored state and nothing is sent.
update_plan_finished(s) ==
    /\ handler[s] = "receive"
    /\ pc[s] = "done"
    /\ sent' = [sent EXCEPT ![s] = <<>>]
    /\ UNCHANGED <<MAX_FOLLOWUP_QUESTIONS, service_vars, extractor_vars, prompt_vars, await_vars, history_vars, handler, active_connections, pc, steps, state_vars,
                   resume_value, llm>>

\* A user_response message for a thread that was never started: there is no
\* checkpoint to resume, ainvoke raises.
update_plan_unknown(s) ==
    /\ handler[s] = "receive"
    /\ pc[s] = "none"
    /\ handler' = [handler EXCEPT ![s] = "update_plan"]
    /\ pc' = [pc EXCEPT ![s] = "raising"]
    /\ sent' = [sent EXCEPT ![s] = <<>>]
    /\ UNCHANGED <<MAX_FOLLOWUP_QUESTIONS, service_vars, extractor_vars, prompt_vars, await_vars, history_vars, active_connections, steps, state_vars, resume_value, llm>>

\* WebSocketDisconnect out of receive_json: disconnect_websocket closes the
\* channel and removes the binding, and the handler ends.
disconnect_websocket(s) ==
    /\ handler[s] = "receive"
    /\ handler' = [handler EXCEPT ![s] = "exited"]
    /\ active_connections' = pop(active_connections, s)
    /\ UNCHANGED <<MAX_FOLLOWUP_QUESTIONS, service_vars, extractor_vars, prompt_vars, await_vars, history_vars, sent, pc, steps, state_vars, resume_value, llm>>

---------------------------------------------------------------------------
(* The nodes of the graph *)

CanStep(s) == steps[s] < RecursionLimit
Stepped(s) == steps' = [steps EXCEPT ![s] = @ + 1]

\* evaluate_node followed by the conditional edge route_after_evaluation
evaluate_node(s) ==
    /\ pc[s] = "evaluate"
    /\ CanStep(s)
    /\ send_message(s, <<Status("evaluating")>>)
    /\ \E o \in EvalOutcomes :
          /\ llm' = [llm EXCEPT ![s] = [node |-> "evaluate", kind |-> o]]
          /\ needs_more_info' = [needs_more_info EXCEPT ![s] = evaluate_result(o)]
          /\ pc' = [pc EXCEPT ![s] =
                        Continue(s, route_after_evaluation(questions_asked[s],
                                                           evaluate_result(o)))]
          /\ always_more' = [always_more EXCEPT ![s] = @ /\ o = "more"]
          /\ \E g \in evaluate_gaps(o) :
                evaluated_gaps' = [evaluated_gaps EXCEPT ![s] = g]
    /\ Stepped(s)
    /\ FirstNotification(s)
    /\ UNCHANGED <<MAX_FOLLOWUP_QUESTIONS, service_vars, extractor_vars, last_round, prompt_gaps,
                   await_vars, handler, messages, questions_asked,
                   current_questions, plan_title, plan_content, resume_value,
                   rounds_completed, round_questions_emitted>>

\* generate_questions_node, then the edge to wait_for_response
generate_questions_node(s) ==
    /\ pc[s] = "generate_questions"
    /\ CanStep(s)
    /\ send_message(s, <<Status("generating_questions")>>)
    /\ \E o \in QuestionOutcomes :
          /\ llm' = [llm EXCEPT ![s] = [node |-> "generate_questions", kind |-> o.kind]]
          /\ current_questions' = [current_questions EXCEPT ![s] = o.questions]
          /\ needs_more_info' =
                 IF o.kind = "ok" THEN needs_more_info
                 ELSE [needs_more_info EXCEPT ![s] = FALSE]
          /\ always_more' = [always_more EXCEPT ![s] =
                                 @ /\ o.questions # <<>> /\ HaveText(o.questions)]
    /\ pc' = [pc EXCEPT ![s] = Continue(s, "wait_for_response")]
    /\ Stepped(s)
    /\ FirstNotification(s)
    /\ round_questions_emitted' = [round_questions_emitted EXCEPT ![s] = 0]
    /\ prompt_gaps' = [prompt_gaps EXCEPT ![s] = <<state_get_gaps(s)>>]
    /\ UNCHANGED <<MAX_FOLLOWUP_QUESTIONS, service_vars, extractor_vars, last_round, evaluated_gaps,
                   await_vars, handler, messages, questions_asked,
                   plan_title, plan_content, resume_value, rounds_completed>>

\* wait_for_response_node with no questions: it returns at once and the edge
\* wait_for_response -> evaluate is taken.
wait_for_response_empty(s) ==
    /\ pc[s] = "wait_for_response"
    /\ CanStep(s)
    /\ no_questions(current_questions[s])
    /\ needs_more_info' = [needs_more_info EXCEPT ![s] = FALSE]
    /\ pc' = [pc EXCEPT ![s] = "evaluate"]
    /\ Stepped(s)
    /\ UNCHANGED <<MAX_FOLLOWUP_QUESTIONS, service_vars, extractor_vars, prompt_vars, await_vars, history_vars, handler, active_connections, sent, messages, questions_asked,
                   current_questions, plan_title, plan_content, resume_value, llm>>

\* wait_for_response_node with questions, first execution: the questions are
\* sent and interrupt() suspends the run; the entry point returns.
wait_for_response_node(s) ==
    /\ pc[s] = "wait_for_response"
    /\ CanStep(s)
    /\ ~no_questions(current_questions[s])
    /\ send_message(s, question_notifications(current_questions[s], questions_asked[s]))
    /\ pc' = [pc EXCEPT ![s] = Continue(s, "suspended")]
    /\ handler' = [handler EXCEPT ![s] = interrupt_returns(@)]
    /\ Stepped(s)
    /\ FirstNotification(s)
    /\ round_questions_emitted' =
           [round_questions_emitted EXCEPT ![s] = @ + Len(current_questions[s])]
    /\ RoundSent(s)
    /\ UNCHANGED <<MAX_FOLLOWUP_QUESTIONS, service_vars, extractor_vars, evaluated_gaps, prompt_gaps,
                   await_vars, rounds_completed, always_more, state_vars,
                   resume_value, llm>>

\* wait_for_response_node run again on resume: the node starts from its top,
\* so the questions are sent again; interrupt() now returns the reply and the
\* node's update is applied; then the edge wait_for_response -> evaluate.
wait_for_response_resumed(s) ==
    /\ pc[s] = "resuming"
    /\ CanStep(s)
    /\ HaveText(current_questions[s])
    /\ send_message(s, question_notifications(current_questions[s], questions_asked[s]))
    /\ FirstNotification(s)
    /\ round_questions_emitted' =
           [round_questions_emitted EXCEPT ![s] = @ + Len(current_questions[s])]
    /\ messages' = [messages EXCEPT ![s] =
                        resume_messages(@, current_questions[s], resume_value[s])]
    /\ questions_asked' = [questions_asked EXCEPT ![s] = next_questions_asked(@)]
    /\ rounds_completed' = [rounds_completed EXCEPT ![s] = @ + 1]
    /\ current_questions' = [current_questions EXCEPT ![s] = None]
    /\ pc' = [pc EXCEPT ![s] = Continue(s, "evaluate")]
    /\ Stepped(s)
    /\ RoundSent(s)
    /\ UNCHANGED <<MAX_FOLLOWUP_QUESTIONS, service_vars, extractor_vars, evaluated_gaps, prompt_gaps,
                   await_vars, handler, needs_more_info, plan_title,
                   plan_content, resume_value, llm, always_more>>

\* wait_for_response_node run again on resume with a question that has no
\* "text": the questions are sent again, then q['text'] raises and no update
\* is applied.
wait_for_response_raises(s) ==
    /\ pc[s] = "resuming"
    /\ CanStep(s)
    /\ ~HaveText(current_questions[s])
    /\ send_message(s, question_notifications(current_questions[s], questions_asked[s]))
    /\ FirstNotification(s)
    /\ round_questions_emitted' =
           [round_questions_emitted EXCEPT ![s] = @ + Len(current_questions[s])]
    /\ pc' = [pc EXCEPT ![s] = "raising"]
    /\ Stepped(s)
    /\ RoundSent(s)
    /\ UNCHANGED <<MAX_FOLLOWUP_QUESTIONS, service_vars, extractor_vars, evaluated_gaps, prompt_gaps,
                   await_vars, rounds_completed, always_more, handler,
                   state_vars, resume_value, llm>>

\* generate_plan_node, then the edge to END
generate_plan_node(s) ==
    /\ pc[s] = "generate_plan"
    /\ CanStep(s)
    /\ \E o \in PlanOutcomes :
          /\ llm' = [llm EXCEPT ![s] = [node |-> "generate_plan", kind |-> o.kind]]
          /\ send_message(s, plan_node_messages(o))
          /\ IF ~plan_node_raises(o)
             THEN /\ plan_title' = [plan_title EXCEPT ![s] = plan_title_of(o.result)]
                  /\ plan_content' = [plan_content EXCEPT ![s] = plan_content_of(o.result)]
                  /\ pc' = [pc EXCEPT ![s] = Continue(s, "done")]
                  /\ handler' = [handler EXCEPT ![s] = "receive"]
             ELSE /\ pc' = [pc EXCEPT ![s] = "raising"]
                  /\ UNCHANGED <<handler, plan_title, plan_content>>
    /\ Stepped(s)
    /\ FirstNotification(s)
    /\ UNCHANGED <<MAX_FOLLOWUP_QUESTIONS, service_vars, extractor_vars, prompt_vars, await_vars, rounds_completed, always_more,
                   round_questions_emitted, messages, questions_asked,
                   needs_more_info, current_questions, resume_value>>

\* graph.ainvoke out of supersteps with a node still to run
GraphRecursionError(s) ==
    /\ pc[s] \in NodePcs
    /\ ~CanStep(s)
    /\ pc' = [pc EXCEPT ![s] = "raising"]
    /\ UNCHANGED <<MAX_FOLLOWUP_QUESTIONS, service_vars, extractor_vars, prompt_vars, await_vars, history_vars, handler, active_connections, sent, steps, state_vars,
                   resume_value, llm>>

\* the except clause of develop_plan / update_plan: one more task.error, and
\* the exception leaves the entry point and ends the handler, which catches
\* WebSocketDisconnect only.
entry_point_except(s) ==
    /\ pc[s] = "raising"
    /\ send_error(s, IF handler[s] = "develop_plan" THEN "Plan development failed"
                     ELSE "Plan update failed")
    /\ pc' = [pc EXCEPT ![s] = "failed"]
    /\ handler' = [handler EXCEPT ![s] = "exited"]
    /\ FirstNotification(s)
    /\ UNCHANGED <<MAX_FOLLOWUP_QUESTIONS, service_vars, extractor_vars, prompt_vars, await_vars, rounds_completed, always_more,
                   round_questions_emitted, steps, state_vars, resume_value, llm>>

---------------------------------------------------------------------------
Engine(s) ==
    \/ evaluate_node(s)
    \/ generate_questions_node(s)
    \/ wait_for_response_empty(s)
    \/ wait_for_response_node(s)
    \/ wait_for_response_resumed(s)
    \/ wait_for_response_raises(s)
    \/ generate_plan_node(s)
    \/ GraphRecursionError(s)
    \/ entry_point_except(s)

Client(s) ==
    \/ connect_websocket(s)
    \/ \E p \in Prompts : develop_plan(s, p)
    \/ \E r \in Replies : update_plan(s, r)
    \/ update_plan_finished(s)
    \/ update_plan_unknown(s)
    \/ disconnect_websocket(s)

Next == \E s \in Live : Engine(s) \/ Client(s)

Spec == Init /\ [][Next]_vars

\* Two connections served by the same process, their handlers interleaved at
\* every await. To keep the product of the two sessions small each call is
\* followed for MaxStepsTwo supersteps, with a cap of one round, one prompt
\* and the model outcomes below.
MaxStepsTwo == 3

TwoSessionsBound ==
    /\ MAX_FOLLOWUP_QUESTIONS = 1
    /\ \A s \in SessionIds :
           /\ steps[s] <= MaxStepsTwo
           /\ llm[s].kind \in {"none", "more", "enough", "ok", "malformed"}
           /\ Len(messages[s]) > 0 => messages[s][1] = UserMessage("p1")
           /\ plan_title[s] # "Untitled Plan"
           /\ plan_content[s] # ""
           /\ pc[s] \in {"wait_for_response", "suspended"} =>
                  current_questions[s] \in {<<>>, QuestionList(1)}

NextTwo ==
    \E s \in SessionIds :
        \/ Engine(s) /\ TwoSessionsBound'
        \/ Client(s) /\ TwoSessionsBound'

InitTwo == Init /\ MAX_FOLLOWUP_QUESTIONS = 1

SpecTwo == InitTwo /\ [][NextTwo]_vars

---------------------------------------------------------------------------
(* The handler and the notifier at the grain of awaits.  A coroutine gives   *)
(* way to the others only at an await: disconnect_websocket between          *)
(* websocket.close() and the pop, send_message between the lookup and the    *)
(* return of websocket.send_text.  A call of develop_plan or update_plan is  *)
(* followed as the send_message calls it makes, one after the other.         *)

\* the most entry-point calls followed at once for one session id
MaxCalls == 2

\* a handler that starts the entry point as a task and goes back to
\* receive_json
call_in_background(h) == "receive"

\* await plan_service.develop_plan(...) / update_plan(...): the handler is
\* inside the call until it returns or raises
await_call(h) == h

\* a start_plan or user_response message arrives
call_entry_point(s) ==
    /\ handler[s] = "receive"
    /\ calls[s] < MaxCalls
    /\ \E h \in {"develop_plan", "update_plan"} :
           handler' = [handler EXCEPT ![s] = await_call(h)]
    /\ calls' = [calls EXCEPT ![s] = @ + 1]
    /\ UNCHANGED <<MAX_FOLLOWUP_QUESTIONS, service_vars, extractor_vars, prompt_vars, history_vars, active_connections, sent, pc,
                   steps, state_vars, resume_value, llm, writers>>

\* send_message up to await websocket.send_text, called by a running call
\* that is not inside a send already; without a binding it returns at once
send_message_get(s) ==
    /\ calls[s] > writers[s]
    /\ Bound(s)
    /\ writers' = [writers EXCEPT ![s] = @ + 1]
    /\ UNCHANGED <<MAX_FOLLOWUP_QUESTIONS, service_vars, extractor_vars, prompt_vars, history_vars, handler, active_connections,
                   sent, pc, steps, state_vars, resume_value, llm, calls>>

\* websocket.send_text returns, or raises and the binding is removed
send_message_send_text(s) ==
    /\ writers[s] > 0
    /\ writers' = [writers EXCEPT ![s] = @ - 1]
    /\ \/ UNCHANGED active_connections
       \/ active_connections' = pop(active_connections, s)
    /\ UNCHANGED <<MAX_FOLLOWUP_QUESTIONS, service_vars, extractor_vars, prompt_vars, history_vars, handler, sent, pc, steps,
                   state_vars, resume_value, llm, calls>>

\* a call that is not inside a send returns (at END or interrupt()) or raises
entry_point_returns(s) ==
    /\ calls[s] > writers[s]
    /\ calls' = [calls EXCEPT ![s] = @ - 1]
    /\ \E h \in {"receive", "exited"} :
           handler' = [handler EXCEPT ![s] =
                          IF @ \in {"develop_plan", "update_plan"} THEN h ELSE @]
    /\ UNCHANGED <<MAX_FOLLOWUP_QUESTIONS, service_vars, extractor_vars, prompt_vars, history_vars, active_connections, sent, pc,
                   steps, state_vars, resume_value, llm, writers>>

\* WebSocketDisconnect out of receive_json; disconnect_websocket up to await
\* websocket.close(), or to its end if the id has no binding
disconnect_websocket_close(s) ==
    /\ handler[s] = "receive"
    /\ handler' = [handler EXCEPT ![s] = IF Bound(s) THEN "closing" ELSE "exited"]
    /\ UNCHANGED <<MAX_FOLLOWUP_QUESTIONS, service_vars, extractor_vars, prompt_vars, history_vars, await_vars, active_connections,
                   sent, pc, steps, state_vars, resume_value, llm>>

\* websocket.close() returned or raised: the binding is removed
disconnect_websocket_pop(s) ==
    /\ handler[s] = "closing"
    /\ handler' = [handler EXCEPT ![s] = "exited"]
    /\ active_connections' = pop(active_connections, s)
    /\ UNCHANGED <<MAX_FOLLOWUP_QUESTIONS, service_vars, extractor_vars, prompt_vars, history_vars, await_vars, sent, pc, steps,
                   state_vars, resume_value, llm>>

NextAwait ==
    \E s \in SessionIds :
        \/ connect_websocket(s)
        \/ call_entry_point(s)
        \/ send_message_get(s)
        \/ send_message_send_text(s)
        \/ entry_point_returns(s)
        \/ disconnect_websocket_close(s)
        \/ disconnect_websocket_pop(s)

SpecAwait == Init /\ [][NextAwait]_vars

\* The event loop runs a call's coroutine on: every model, storage and channel
\* call returns or raises.
FairSpec == Spec /\ \A s \in Live : WF_vars(Engine(s))

---------------------------------------------------------------------------
(* Properties *)

Count(seq, ty) == Cardinality({i \in 1..Len(seq) : seq[i].type = ty})

\* a node of session s executes in this step
NodeRuns(s) == pc[s] \in NodePcs /\ steps'[s] = steps[s] + 1
ModelNodes == {"evaluate", "generate_questions", "generate_plan"}

\* C1: a run ends after at most MAX_FOLLOWUP_QUESTIONS question rounds: every
\* return from the question branch to Evaluating has completed a round, that
\* is, there is no path evaluate -> generate_questions -> wait_for_response ->
\* evaluate along which questions_asked stays the same.
C1_NoStalledCycle ==
    [][\A s \in SessionIds :
          (pc[s] \in {"wait_for_response", "resuming"} /\ pc'[s] = "evaluate")
              => questions_asked'[s] = questions_asked[s] + 1]_vars

\* C2: questions_asked never exceeds MAX_FOLLOWUP_QUESTIONS.
C2_CounterWithinCap ==
    \A s \in SessionIds : questions_asked[s] <= MAX_FOLLOWUP_QUESTIONS

C2_Witness ==
    \E s \in SessionIds :
        /\ MAX_FOLLOWUP_QUESTIONS >= 1
        /\ questions_asked[s] = MAX_FOLLOWUP_QUESTIONS
        /\ pc[s] = "evaluate"

\* C3: after Evaluating the limit check comes first: at the limit the next
\* node is generate_plan whatever needs_more_info is; below it the next node
\* is generate_questions exactly when needs_more_info is true; and
\* generate_questions is never entered at the limit.
C3_Routing ==
    [][\A s \in SessionIds :
          /\ (pc[s] = "evaluate" /\ NodeRuns(s)) =>
                 pc'[s] = IF questions_asked[s] >= MAX_FOLLOWUP_QUESTIONS
                          THEN "generate_plan"
                          ELSE IF needs_more_info'[s] THEN "generate_questions"
                          ELSE "generate_plan"
          /\ pc'[s] = "generate_questions" =>
                 questions_asked'[s] < MAX_FOLLOWUP_QUESTIONS]_vars

C3_Witness ==
    \E s \in SessionIds :
        /\ pc[s] = "generate_plan"
        /\ needs_more_info[s]
        /\ MAX_FOLLOWUP_QUESTIONS >= 1
        /\ questions_asked[s] = MAX_FOLLOWUP_QUESTIONS

C5_LifetimeCounter ==
    [][\A s \in SessionIds :
          questions_asked'[s] # questions_asked[s]
              => /\ pc[s] = "resuming"
                 /\ questions_asked'[s] = questions_asked[s] + 1]_vars

\* C5 amended: questions_asked is set to 0 by every develop_plan on the id;
\* between two develop_plan calls it changes only by +1 at a resume
\* transition, and it equals the number of rounds completed since the latest
\* develop_plan.
C5_CounterPerRun ==
    /\ [][\A s \in SessionIds :
             questions_asked'[s] # questions_asked[s]
                 => \/ /\ pc[s] = "resuming"
                       /\ questions_asked'[s] = questions_asked[s] + 1
                    \/ /\ handler'[s] = "develop_plan"
                       /\ pc'[s] = "evaluate"
                       /\ questions_asked'[s] = 0]_vars
    /\ [](\A s \in SessionIds : questions_asked[s] = rounds_completed[s])

\* a second develop_plan on an id that has completed a round
C5_Witness ==
    \E s \in SessionIds :
        /\ resume_value[s] # None
        /\ handler[s] = "develop_plan"
        /\ steps[s] = 0
        /\ questions_asked[s] = 0

\* C6: when question generation fails or returns no questions, the next
\* node is generate_plan, with no evaluation in between.
C6_AbandonedRoundGoesToPlan ==
    [][\A s \in SessionIds :
          (pc[s] = "wait_for_response" /\ NodeRuns(s)
              /\ llm[s].node = "generate_questions" /\ current_questions[s] = <<>>)
              => pc'[s] = "generate_plan"]_vars

\* C7 as stated: a failed model call at any model-calling node is raised to
\* the caller of the entry point.
C7_ModelFailurePropagates ==
    [][\A s \in SessionIds :
          (pc[s] \in ModelNodes /\ NodeRuns(s) /\ llm'[s].kind = "unavailable")
              => pc'[s] = "raising"]_vars

\* C7 amended: a failed model call at generate_plan is raised to the caller,
\* with a task.error sent, and the session ends Failed; a failed model call
\* at evaluate or generate_questions is caught by the node, which goes on as
\* after an extraction failure (needs_more_info false, no questions).
C7_ModelFailureByNode ==
    [][\A s \in SessionIds :
          /\ (pc[s] \in ModelNodes /\ NodeRuns(s) /\ llm'[s].kind = "unavailable") =>
                CASE pc[s] = "generate_plan" ->
                        /\ pc'[s] = "raising"
                        /\ Bound(s)' =>
                               Count(sent'[s], "task.error") >= 1
                  [] pc[s] = "evaluate" ->
                        /\ ~needs_more_info'[s]
                        /\ pc'[s] = "generate_plan"
                  [] pc[s] = "generate_questions" ->
                        /\ ~needs_more_info'[s]
                        /\ current_questions'[s] = <<>>
                        /\ pc'[s] = "wait_for_response"
          /\ (pc[s] = "raising" /\ pc'[s] # "raising") =>
                /\ pc'[s] = "failed"
                /\ handler'[s] = "exited"]_vars

C7_Witness ==
    \E s \in SessionIds :
        /\ pc[s] = "failed"
        /\ llm[s] = [node |-> "generate_plan", kind |-> "unavailable"]
        /\ Bound(s)
        /\ Count(sent[s], "task.error") >= 1

\* C8: a run that fails at the plan step has sent exactly one task.error
\* when its entry point ends, the channel still being bound.
C8_ExactlyOneTaskError ==
    \A s \in SessionIds :
        (pc[s] = "failed" /\ llm[s].node = "generate_plan" /\ Bound(s))
            => Count(sent[s], "task.error") = 1

\* C9: a run that ends Failed has sent no document.update and no
\* ready_for_approval (not in the failing call, and not in an earlier call
\* that ended suspended), and its plan_title and plan_content are absent.
C9_FailedRunSendsNoDocument ==
    \A s \in SessionIds :
        /\ pc[s] \in {"raising", "failed", "suspended"} =>
              /\ Count(sent[s], "document.update") = 0
              /\ Count(sent[s], "ready_for_approval") = 0
        /\ pc[s] \in {"raising", "failed"} =>
              /\ plan_title[s] = None
              /\ plan_content[s] = None

C9_Witness ==
    \E s \in SessionIds :
        /\ pc[s] = "failed"
        /\ llm[s] = [node |-> "generate_plan", kind |-> "sign_failed"]
        /\ rounds_completed[s] >= 1
        /\ Len(sent[s]) >= 3

\* C10: when the evaluator's output cannot be extracted, evaluate goes on as
\* with needs_more_info false: the next node is generate_plan, the step sends
\* no task.error, and the entry point does not raise.
C10_EvaluationFailsOpen ==
    [][\A s \in SessionIds :
          (pc[s] = "evaluate" /\ NodeRuns(s) /\ llm'[s].kind = "malformed")
              => /\ ~needs_more_info'[s]
                 /\ pc'[s] = "generate_plan"
                 /\ Count(sent'[s], "task.error") = Count(sent[s], "task.error")
                 /\ handler'[s] = handler[s]]_vars

C10_Witness ==
    \E s \in SessionIds :
        /\ pc[s] = "generate_plan"
        /\ llm[s] = [node |-> "evaluate", kind |-> "malformed"]
        /\ questions_asked[s] < MAX_FOLLOWUP_QUESTIONS

---------------------------------------------------------------------------
\* the reply has just been applied by the update_plan call
JustResumed(s) ==
    /\ handler[s] = "update_plan"
    /\ pc[s] = "evaluate"
    /\ steps[s] = 1

\* the questions of the round that the latest resume closed, as recorded in
\* the transcript
AnsweredQuestions(s) == Len(messages[s][Len(messages[s]) - 1].content) - 1

\* C11: a round with k pending questions emits exactly k question
\* notifications, counted from the generation of the questions through the
\* suspension to the update_plan call that resumes the round; the resume
\* does not send the round's questions again.
C11_QuestionsSentOnce ==
    \A s \in SessionIds :
        /\ pc[s] = "suspended" =>
               round_questions_emitted[s] = Len(current_questions[s])
        /\ JustResumed(s) =>
               /\ round_questions_emitted[s] = AnsweredQuestions(s)
               /\ Count(sent[s], "question") = 0

\* C12: the resume transition. From a session suspended with transcript T,
\* counter c and pending questions Q, update_plan(session_id, R) leaves the
\* checkpoint as it was until the reply is applied, and applying it makes the
\* transcript T followed by exactly two messages (assistant "Questions:" with
\* the texts of Q in order, then user R), sets questions_asked to c + 1,
\* clears current_questions and puts the session back in Evaluating.
C12_ResumeTransition ==
    [][\A s \in SessionIds :
          /\ (pc[s] = "suspended" /\ pc'[s] = "resuming") =>
                 /\ messages'[s] = messages[s]
                 /\ questions_asked'[s] = questions_asked[s]
                 /\ current_questions'[s] = current_questions[s]
                 /\ resume_value'[s] \in Replies
          /\ (pc[s] = "resuming" /\ pc'[s] # "resuming" /\ handler'[s] = "update_plan"
                 /\ pc'[s] # "raising") =>
                 LET T == messages[s]
                     Q == current_questions[s]
                     R == resume_value[s]
                     n == Len(T)
                 IN  /\ Len(messages'[s]) = n + 2
                     /\ \A i \in 1..n : messages'[s][i] = T[i]
                     /\ messages'[s][n + 1].role = "assistant"
                     /\ messages'[s][n + 1].content[1] = "Questions:"
                     /\ Len(messages'[s][n + 1].content) = Len(Q) + 1
                     /\ \A i \in 1..Len(Q) :
                            messages'[s][n + 1].content[i + 1] = Q[i].text
                     /\ messages'[s][n + 2] = [role |-> "user", content |-> <<R>>]
                     /\ questions_asked'[s] = questions_asked[s] + 1
                     /\ current_questions'[s] = None
                     /\ pc'[s] = "evaluate"]_vars

C12_Witness ==
    \E s \in SessionIds :
        /\ JustResumed(s)
        /\ Len(messages[s]) = 3
        /\ Len(messages[s][2].content) = 3
        /\ messages[s][3] = UserMessage("r1")
        /\ questions_asked[s] = 1
        /\ current_questions[s] = None

\* the notification at position i of the call's log is status(st)
IsStatus(seq, i, st) == seq[i].type = "status" /\ seq[i].status = st

\* C13: in a run that has not failed, the first notification written is
\* status(evaluating), so it precedes every question and every
\* status(generating); status(generating) precedes document.update, and
\* document.update precedes ready_for_approval.
C13_NotificationOrder ==
    \A s \in SessionIds :
        pc[s] \in NodePcs \cup {"suspended", "done"} =>
            /\ run_first[s] \in {"none", "evaluating"}
            /\ \A i \in 1..Len(sent[s]) :
                   /\ sent[s][i].type = "document.update" =>
                          \E j \in 1..(i - 1) : IsStatus(sent[s], j, "generating")
                   /\ sent[s][i].type = "ready_for_approval" =>
                          \E j \in 1..(i - 1) : sent[s][j].type = "document.update"

C13_Witness ==
    \E s \in SessionIds :
        /\ pc[s] = "done"
        /\ rounds_completed[s] = 1
        /\ run_first[s] = "evaluating"
        /\ Count(sent[s], "question") > 0
        /\ Count(sent[s], "ready_for_approval") = 1

\* C14: a develop_plan whose first evaluation reports needs_more_info = false
\* and whose plan generation and storage succeed reaches Done in the same
\* call without suspending; the client, if its channel stays bound, gets
\* exactly one document.update (carrying the stored title and content) and
\* one ready_for_approval and no question; questions_asked is 0 and
\* plan_title and plan_content are set.
C14_DirectPlan ==
    [][\A s \in SessionIds :
          (/\ handler[s] = "develop_plan"
           /\ pc[s] = "generate_plan"
           /\ steps[s] = 1
           /\ llm[s] = [node |-> "evaluate", kind |-> "enough"]
           /\ NodeRuns(s)
           /\ llm'[s].kind = "ok") =>
              /\ pc'[s] = "done"
              /\ handler'[s] = "receive"
              /\ questions_asked'[s] = 0
              /\ plan_title'[s] # None
              /\ plan_content'[s] # None
              /\ Count(sent'[s], "question") = 0
              /\ Bound(s)' =>
                     /\ Count(sent'[s], "document.update") = 1
                     /\ Count(sent'[s], "ready_for_approval") = 1
                     /\ \A i \in 1..Len(sent'[s]) :
                            sent'[s][i].type = "document.update" =>
                                /\ sent'[s][i].title = plan_title'[s]
                                /\ sent'[s][i].content = plan_content'[s]]_vars

C14_Witness ==
    \E s \in SessionIds :
        /\ pc[s] = "done"
        /\ steps[s] = 2
        /\ rounds_completed[s] = 0
        /\ questions_asked[s] = 0
        /\ llm[s].kind = "ok"
        /\ Bound(s)
        /\ Count(sent[s], "document.update") = 1
        /\ Count(sent[s], "question") = 0

\* C15: an empty question list never causes a suspension: whenever a session
\* is suspended its current_questions is a non-empty list, and one question
\* notification per pending question has been emitted for the round (and
\* delivered by the suspending call, if the channel stayed bound).
C15_SuspendedHasQuestions ==
    \A s \in SessionIds :
        pc[s] = "suspended" =>
            /\ Len(current_questions[s]) >= 1
            /\ round_questions_emitted[s] = Len(current_questions[s])
            /\ (handler[s] = "receive" /\ Bound(s)) =>
                   Count(sent[s], "question") >= Len(current_questions[s])

C15_Witness ==
    \E s \in SessionIds :
        /\ pc[s] = "suspended"
        /\ steps[s] > 3
        /\ Len(current_questions[s]) = 1
        /\ round_questions_emitted[s] = 1

\* x is None, for a field that holds None or a list
Absent(x) == ToString(x) = ToString(None)

NonEmpty(x) == ~Absent(x) /\ Len(x) > 0

\* the entry point has returned control to the handler (or raised into it)
Returned(s) == handler[s] \in {"receive", "exited"} /\ pc[s] # "none"

\* C16: whenever a run has returned control to its caller, current_questions
\* is non-empty exactly if the session is suspended awaiting a reply; in Done,
\* in Failed and right after a resume has been applied it is empty or absent.
C16_QuestionsOnlyWhileSuspended ==
    \A s \in SessionIds :
        /\ Returned(s) => (NonEmpty(current_questions[s]) <=> pc[s] = "suspended")
        /\ pc[s] \in {"done", "failed"} => ~NonEmpty(current_questions[s])
        /\ JustResumed(s) => ~NonEmpty(current_questions[s])

IsPrefix(a, b) == Len(a) <= Len(b) /\ \A i \in 1..Len(a) : a[i] = b[i]

\* C18: the transcript of a session id is append-only over the id's whole
\* lifetime, through any sequence of develop_plan and update_plan calls: an
\* earlier value of messages is a prefix of every later one.
C18_TranscriptAppendOnly ==
    [][\A s \in SessionIds : IsPrefix(messages[s], messages'[s])]_vars

\* C18, per run: develop_plan replaces the transcript of the id by the one
\* message of the new prompt; between two develop_plan calls the transcript is
\* append-only.
C18_AppendOnlyPerRun ==
    [][\A s \in SessionIds :
          \/ IsPrefix(messages[s], messages'[s])
          \/ /\ handler[s] = "receive"
             /\ handler'[s] = "develop_plan"
             /\ pc'[s] = "evaluate"
             /\ \E p \in Prompts : messages'[s] = <<UserMessage(p)>>]_vars

\* a second develop_plan on an id whose first run recorded a question round
\* and went on to plan generation
C18_Witness ==
    \E s \in SessionIds :
        /\ handler[s] = "develop_plan"
        /\ pc[s] = "evaluate"
        /\ steps[s] = 0
        /\ llm[s].node = "generate_plan"
        /\ resume_value[s] # None
        /\ messages[s] = <<UserMessage("p2")>>

\* an entry point call of the session is executing
InCall(s) == handler[s] \in {"develop_plan", "update_plan"}

\* C20: develop_plan and update_plan return control exactly when the run
\* reaches Done, Failed (by raising) or AwaitingResponse: a call is executing
\* exactly while the run is at a node or unwinding, Done and a suspension
\* leave the handler free to receive the next client message, Failed leaves
\* it by the raised exception. While the session is suspended no engine call
\* executes for it and its checkpoint stays as it was until update_plan,
\* given the session id and the reply alone, resumes it (or develop_plan
\* starts the id over).
C20_ReturnsAtRestPoints ==
    [][\A s \in SessionIds :
          /\ InCall(s)' <=> pc'[s] \in NodePcs \cup {"raising"}
          /\ pc'[s] = "failed" => handler'[s] = "exited"
          /\ (InCall(s) /\ ~InCall(s)') => pc'[s] \in {"done", "failed", "suspended"}
          /\ (InCall(s) /\ pc'[s] \in {"done", "suspended"}) => handler'[s] = "receive"
          /\ pc[s] = "suspended" =>
                 \/ /\ pc'[s] = "suspended"
                    /\ <<messages[s], questions_asked[s], current_questions[s]>>'
                           = <<messages[s], questions_asked[s], current_questions[s]>>
                 \/ /\ pc'[s] = "resuming"
                    /\ handler'[s] = "update_plan"
                    /\ <<messages[s], questions_asked[s], current_questions[s]>>'
                           = <<messages[s], questions_asked[s], current_questions[s]>>
                 \/ /\ pc'[s] = "evaluate"
                    /\ handler'[s] = "develop_plan"
                    /\ steps'[s] = 0]_vars

C20_Witness ==
    \E s \in SessionIds :
        /\ pc[s] = "suspended"
        /\ handler[s] = "receive"
        /\ rounds_completed[s] = 1
        /\ steps[s] = 4

\* everything the program holds for one session id: the handler's position,
\* the channel binding, what was written to the channel, and the thread's
\* checkpoint
SessionOf(s) ==
    <<handler[s], active_connections[s], sent[s], pc[s], steps[s], messages[s],
      questions_asked[s], needs_more_info[s], ToString(current_questions[s]),
      plan_title[s], plan_content[s], resume_value[s]>>

\* C19: session isolation. With two sessions interleaved, a transition of one
\* session leaves the other's persisted state and channel binding unchanged
\* and writes nothing to the other's channel.
C19_SessionIsolation ==
    [][\A a \in SessionIds : \A b \in SessionIds \ {a} :
          SessionOf(a)' # SessionOf(a) => SessionOf(b)' = SessionOf(b)]_vars

C19_Witness ==
    /\ pc["s1"] = "suspended"
    /\ handler["s1"] = "receive"
    /\ Count(sent["s1"], "question") = 1
    /\ pc["s2"] = "done"
    /\ Count(sent["s2"], "document.update") = 1
    /\ \A s \in SessionIds : Bound(s)

---------------------------------------------------------------------------
\* the handler of session s registers its websocket in this step
Registers(s) == handler[s] = "none" /\ handler'[s] = "receive"

Sends(s) ==
    \/ NodeRuns(s) /\ pc[s] # "wait_for_response"
    \/ NodeRuns(s) /\ pc[s] = "wait_for_response" /\ ~no_questions(current_questions[s])
    \/ pc[s] = "raising" /\ pc'[s] = "failed"

\* the node fails by itself, whatever the channel does
NodeFails(s) ==
    \/ pc[s] = "generate_plan" /\ llm'[s].kind # "ok"
    \/ pc[s] = "resuming" /\ ~HaveText(current_questions[s])

\* C22: send_message and send_error for a session id without a binding are
\* silent no-ops: nothing is written to any channel, the registry stays as it
\* is, and no error reaches the sending node (it raises only if it fails by
\* itself).
C22_UnboundSendIsNoOp ==
    [][\A s \in SessionIds :
          (Sends(s) /\ ~Bound(s)) =>
              /\ sent' = sent
              /\ active_connections' = active_connections
              /\ (pc'[s] = "raising" => NodeFails(s))
              /\ (handler'[s] = "exited" => pc[s] = "raising")]_vars

C22_Witness ==
    \E s \in SessionIds :
        /\ pc[s] = "suspended"
        /\ handler[s] = "receive"
        /\ ~Bound(s)
        /\ sent[s] = <<>>
        /\ round_questions_emitted[s] = 2

\* where a node leads, from the checkpoint and the model's answer alone
NodeTarget(s) ==
    CASE pc[s] = "evaluate" ->
             route_after_evaluation(questions_asked[s], needs_more_info'[s])
      [] pc[s] = "generate_questions" -> "wait_for_response"
      [] pc[s] = "wait_for_response" ->
             IF no_questions(current_questions[s]) THEN "evaluate" ELSE "suspended"
      [] pc[s] = "resuming" ->
             IF HaveText(current_questions[s]) THEN "evaluate" ELSE "raising"
      [] pc[s] = "generate_plan" ->
             IF llm'[s].kind = "ok" THEN "done" ELSE "raising"

\* C23: a channel failure is never fatal to a run. When a write fails,
\* send_message removes the binding and returns, and the node goes where the
\* checkpoint and the model's answer lead, with the update it makes with a
\* healthy channel; so does every node of a session whose binding is gone.
C23_ChannelFailureNotFatal ==
    [][\A s \in SessionIds :
          (NodeRuns(s) /\ (WriteFailed(s) \/ ~Bound(s))) =>
              /\ ~Bound(s)'
              /\ pc'[s] = NodeTarget(s)
              /\ handler'[s] # "exited"
              /\ pc[s] = "evaluate" =>
                     needs_more_info'[s] = evaluate_result(llm'[s].kind)
              /\ questions_asked'[s] =
                     IF pc'[s] = "evaluate" /\ pc[s] = "resuming"
                     THEN questions_asked[s] + 1 ELSE questions_asked[s]
              /\ pc'[s] = "done" <=> plan_title'[s] # None]_vars

\* a run with a round of questions that reached Done although its first
\* write failed and nothing was delivered afterwards
C23_Witness ==
    \E s \in SessionIds :
        /\ pc[s] = "done"
        /\ rounds_completed[s] = 1
        /\ ~Bound(s)
        /\ sent[s] = <<>>
        /\ run_first[s] = "none"
        /\ plan_content[s] = "C"

C25_SingleWriter ==
    \A s \in SessionIds : writers[s] <= 1

\* both sessions in the middle of a write, one send each
C25_Witness ==
    /\ writers["s1"] = 1
    /\ writers["s2"] = 1

----------------------------------------------------------------------------
(* extract_json, the extractor of a JSON object from a model response *)

\* A response is a sequence of lexical tokens. LBrace, RBrace, Quote and Fence
\* are the characters the extractor's patterns look for (Quote, written ',
\* is the double quote of a JSON string); the other tokens
\* stand for runs of characters holding none of them: Member for a complete
\* member with a scalar value ("m": 1), Key for a member's name and colon
\* ("k":), Scalar for a JSON number, LanguageTag for the word json, Prose for
\* any other words. Whitespace and commas are left out, so strip() changes
\* nothing.
LBrace == "{"
RBrace == "}"
Quote == "'"
Fence == "fence"
LanguageTag == "json"
Prose == "prose"
Member == "m: 1"
Key == "k:"
Scalar == "1"
Alphabet == {LBrace, RBrace, Quote, Fence, LanguageTag, Prose, Member, Key, Scalar}

\* the longest arbitrary response
MaxTextLen == 3
\* the deepest nesting of a JSON object a response is built around
MaxDepth == 3

Least(S) == CHOOSE x \in S : \A y \in S : x <= y

\* json.loads: the position of the last token of the JSON value that starts
\* at position i of t, 0 when no value starts there. A string runs from a
\* quote to the next quote, braces and fences between them included (the
\* quote of a member's name ends it too, and nothing valid follows that); an
\* object is a brace, its members and the closing brace.
RECURSIVE ValueEnd(_, _), MembersEnd(_, _)
ValueEnd(t, i) ==
    IF i > Len(t) THEN 0
    ELSE CASE t[i] = Scalar -> i
           [] t[i] = Quote ->
                LET closing == {j \in (i + 1)..Len(t) : t[j] \in {Quote, Member, Key}}
                IN  IF closing = {} \/ t[Least(closing)] # Quote
                    THEN 0 ELSE Least(closing)
           [] t[i] = LBrace -> MembersEnd(t, i + 1)
           [] OTHER -> 0
MembersEnd(t, i) ==
    IF i > Len(t) THEN 0
    ELSE CASE t[i] = RBrace -> i
           [] t[i] = Member -> MembersEnd(t, i + 1)
           [] t[i] = Key ->
                LET e == ValueEnd(t, i + 1)
                IN  IF e = 0 THEN 0 ELSE MembersEnd(t, e + 1)
           [] OTHER -> 0

\* What a call comes to. A parsed value is held as the tokens of its JSON
\* text, which json.loads and json.dumps map one to one.
Returns(v) == [outcome |-> "returned", value |-> v]
JSONDecodeError == [outcome |-> "raised", value |-> <<>>]

\* json.loads(t): the whole of t is one JSON value, or JSONDecodeError
json_loads(t) ==
    IF Len(t) > 0 /\ ValueEnd(t, 1) = Len(t) THEN Returns(t) ELSE JSONDecodeError

\* a parsed value is a dict
IsMapping(v) == Len(v) > 0 /\ v[1] = LBrace

\* re.findall(code_block_pattern, text, re.DOTALL) from position i on: the
\* contents of the fenced blocks, left to right, each running from a fence
\* of three backquotes (and the tag after it) to the nearest fence behind it.
RECURSIVE code_block_matches(_, _)
code_block_matches(t, i) ==
    LET opening == {a \in i..Len(t) : t[a] = Fence}
    IN  IF opening = {} THEN <<>>
        ELSE LET a == Least(opening)
                 c == IF a < Len(t) /\ t[a + 1] = LanguageTag THEN a + 2 ELSE a + 1
                 closing == {b \in c..Len(t) : t[b] = Fence}
             IN  IF closing = {} THEN <<>>
                 ELSE <<SubSeq(t, c, Least(closing) - 1)>>
                        \o code_block_matches(t, Least(closing) + 1)

\* r'\{[^{}]*(?:\{[^{}]*\}[^{}]*)*\}' matched behind an opening brace: the
\* position of the brace that ends the match, 0 when there is no match. The
\* pattern allows braces inside the outer pair but none inside those.
RECURSIVE json_pattern_end(_, _, _)
json_pattern_end(t, j, depth) ==
    IF j > Len(t) THEN 0
    ELSE CASE t[j] = LBrace ->
                IF depth = 1 THEN json_pattern_end(t, j + 1, 2) ELSE 0
           [] t[j] = RBrace ->
                IF depth = 2 THEN json_pattern_end(t, j + 1, 1) ELSE j
           [] OTHER -> json_pattern_end(t, j + 1, depth)

\* re.findall(json_pattern, text) from position i on: the matches left to
\* right, each starting at the first brace a match starts at.
RECURSIVE json_pattern_matches(_, _)
json_pattern_matches(t, i) ==
    LET starts == {a \in i..Len(t) :
                      t[a] = LBrace /\ json_pattern_end(t, a + 1, 1) # 0}
    IN  IF starts = {} THEN <<>>
        ELSE LET a == Least(starts)
                 e == json_pattern_end(t, a + 1, 1)
             IN  <<SubSeq(t, a, e)>> \o json_pattern_matches(t, e + 1)

\* for match in matches: try: return json.loads(match) except: continue
RECURSIVE first_loaded(_, _)
first_loaded(matches, i) ==
    IF i > Len(matches) THEN JSONDecodeError
    ELSE IF json_loads(matches[i]).outcome = "returned"
         THEN json_loads(matches[i])
         ELSE first_loaded(matches, i + 1)

\* the walk from the first opening brace: the position where the depth is
\* back at 0, 0 when it never is
RECURSIVE depth_walk(_, _, _)
depth_walk(t, j, depth) ==
    IF j > Len(t) THEN 0
    ELSE CASE t[j] = LBrace -> depth_walk(t, j + 1, depth + 1)
           [] t[j] = RBrace ->
                IF depth = 1 THEN j ELSE depth_walk(t, j + 1, depth - 1)
           [] OTHER -> depth_walk(t, j + 1, depth)

\* the last resort: the block from the first opening brace to the brace that
\* balances it, loaded once; a failure breaks out of the walk
largest_block(t) ==
    LET braces == {a \in 1..Len(t) : t[a] = LBrace}
    IN  IF braces = {} THEN JSONDecodeError
        ELSE LET start == Least(braces)
                 end == depth_walk(t, start + 1, 1)
             IN  IF end = 0 THEN JSONDecodeError
                 ELSE json_loads(SubSeq(t, start, end))

\* extract_json: the whole text, then the fenced blocks, then the pattern's
\* matches, then the largest block; the first that loads is returned as it
\* is, and when none loads JSONDecodeError is raised.
extract_json(t) ==
    IF json_loads(t).outcome = "returned" THEN json_loads(t)
    ELSE IF first_loaded(code_block_matches(t, 1), 1).outcome = "returned"
         THEN first_loaded(code_block_matches(t, 1), 1)
    ELSE IF first_loaded(json_pattern_matches(t, 1), 1).outcome = "returned"
         THEN first_loaded(json_pattern_matches(t, 1), 1)
    ELSE largest_block(t)

\* the responses of at most n tokens
RECURSIVE Texts(_)
Texts(n) ==
    IF n = 0 THEN {<<>>}
    ELSE Texts(n - 1)
           \cup {Append(t, a) : t \in {u \in Texts(n - 1) : Len(u) = n - 1},
                                a \in Alphabet}

\* string values that hold a brace, a code fence or plain words
StringValues == {<<Quote, c, Quote>> : c \in {LBrace, RBrace, Fence, Prose}}

\* the JSON text of the objects nested at most d deep: empty, one scalar
\* member, or a member whose value is a string or an object, alone or
\* followed by a scalar member
RECURSIVE Mappings(_)
Mappings(d) ==
    IF d = 0 THEN {}
    ELSE LET values == Mappings(d - 1) \cup StringValues
         IN  {<<LBrace, RBrace>>, <<LBrace, Member, RBrace>>}
               \cup {<<LBrace, Key>> \o v \o <<RBrace>> : v \in values}
               \cup {<<LBrace, Key>> \o v \o <<Member, RBrace>> : v \in values}

\* how a model wraps the object it answers with
Wrappings == {"prose", "fence", "tagged fence", "prose and tagged fence"}
Wrap(w, j) ==
    CASE w = "prose" -> <<Prose>> \o j \o <<Prose>>
      [] w = "fence" -> <<Fence>> \o j \o <<Fence>>
      [] w = "tagged fence" -> <<Fence, LanguageTag>> \o j \o <<Fence>>
      [] w = "prose and tagged fence" ->
            <<Prose, Fence, LanguageTag>> \o j \o <<Fence, Prose>>

\* A response handed to the extractor: an object in one of the wrappings, or
\* any text of at most MaxTextLen tokens.
InitExtract ==
    /\ Start
    /\ MAX_FOLLOWUP_QUESTIONS = 1
    /\ extracted = [outcome |-> "not called", value |-> <<>>]
    /\ \/ /\ mapping \in Mappings(MaxDepth)
          /\ llm_response \in {Wrap(w, mapping) : w \in Wrappings}
       \/ /\ mapping = <<>>
          /\ llm_response \in Texts(MaxTextLen)

\* result = self.extract_json(response)
call_extract_json ==
    /\ extracted.outcome = "not called"
    /\ extracted' = extract_json(llm_response)
    /\ UNCHANGED <<llm_response, mapping, handler, active_connections, sent, pc,
                   steps, state_vars, resume_value, llm, MAX_FOLLOWUP_QUESTIONS,
                   history_vars, await_vars, prompt_vars, service_vars>>

SpecExtract == InitExtract /\ [][call_extract_json]_vars

\* a text has a brace-delimited span: an opening brace with a closing brace
\* somewhere behind it
HasBraceSpan(t) ==
    \E i \in 1..Len(t) : \E j \in (i + 1)..Len(t) : t[i] = LBrace /\ t[j] = RBrace

\* C26: for every JSON object M, the extractor applied to the JSON text of M
\* wrapped in prose or in a fenced block, with or without a language tag,
\* returns M -- objects nested two or more levels deep and strings that hold
\* braces or code fences included.
C26_RoundTrip ==
    (mapping # <<>> /\ extracted.outcome # "not called")
        => extracted = Returns(mapping)

\* C27: the extractor returns a mapping or raises; it never returns a list,
\* a number, a string, a boolean or null.
C27_MappingOrFailure ==
    extracted.outcome = "returned" => IsMapping(extracted.value)

\* C28: for every text without a brace-delimited span the extractor raises.
C28_NoBraceSpanRaises ==
    (extracted.outcome # "not called" /\ ~HasBraceSpan(llm_response))
        => extracted.outcome = "raised"

----------------------------------------------------------------------------
\* the notifications written to the session's channel in this step
Written(s) == {sent'[s][i] : i \in (Len(sent[s]) + 1)..Len(sent'[s])}

\* a node of session s sends the questions of a round in this step: the first
\* time, or again when the round is resumed
SendsQuestions(s) == pc[s] \in {"wait_for_response", "resuming"} /\ NodeRuns(s)
SendsNewRound(s) ==
    /\ pc[s] = "wait_for_response"
    /\ NodeRuns(s)
    /\ \E m \in Written(s) : m.type = "question"

\* every question notification carries round = questions_asked + 1 and
\* max_rounds = MAX_FOLLOWUP_QUESTIONS, and 1 <= round <= max_rounds
RoundOfTheState(s) ==
    SendsQuestions(s) =>
        \A m \in Written(s) :
            m.type = "question" =>
                /\ m.round = questions_asked[s] + 1
                /\ m.max_rounds = MAX_FOLLOWUP_QUESTIONS
                /\ 1 <= m.round
                /\ m.round <= m.max_rounds

\* C29 as stated: every question notification carries round =
\* questions_asked + 1 of the state it is sent in and max_rounds =
\* MAX_FOLLOWUP_QUESTIONS, so that 1 <= round <= max_rounds, and the
\* successive question rounds of a session carry 1, 2, 3, ...: each new round
\* carries one more than the session's round before it.
C29_RoundsInSequence ==
    [][\A s \in SessionIds :
          /\ RoundOfTheState(s)
          /\ SendsNewRound(s) => last_round'[s] = last_round[s] + 1]_vars

\* C29 amended: every question notification carries round =
\* questions_asked + 1 of the state it is sent in and max_rounds =
\* MAX_FOLLOWUP_QUESTIONS, so that 1 <= round <= max_rounds; the successive
\* question rounds between two develop_plan calls carry 1, 2, 3, ..., one more
\* than the rounds completed since the latest develop_plan, and a develop_plan
\* on the same session id starts again at round 1.
C29_RoundsInSequencePerRun ==
    [][\A s \in SessionIds :
          /\ RoundOfTheState(s)
          /\ SendsNewRound(s) => last_round'[s] = rounds_completed[s] + 1
          /\ (pc[s] = "resuming" /\ NodeRuns(s)) => last_round'[s] = last_round[s]]_vars

\* the second question round of a run has been sent, carrying round 2
C29_Witness ==
    \E s \in SessionIds :
        /\ pc[s] = "suspended"
        /\ rounds_completed[s] = 1
        /\ last_round[s] = 2
        /\ \E i \in 1..Len(sent[s]) :
              /\ sent[s][i].type = "question"
              /\ sent[s][i].round = 2
              /\ sent[s][i].max_rounds = 2

----------------------------------------------------------------------------
\* the latest evaluation of the run recorded a gap list that names a gap
RecordedGaps(s) == evaluated_gaps[s] # <<>> /\ Len(evaluated_gaps[s][1]) > 0

\* C30: the gap list handed to question generation is the gap list recorded
\* by the most recent evaluation of the session whenever that evaluation
\* recorded one; the generic default gap description is used only when the
\* evaluation recorded no gaps.
C30_GapsHandedOn ==
    [][\A s \in SessionIds :
          (pc[s] = "generate_questions" /\ NodeRuns(s)) =>
              /\ RecordedGaps(s) => prompt_gaps'[s] = evaluated_gaps[s]
              /\ prompt_gaps'[s] = <<DefaultGaps>> => ~RecordedGaps(s)]_vars

----------------------------------------------------------------------------
\* update_plan is called in this step for a session that is not suspended:
\* the handler, at receive_json, enters the call, or has gone through it when
\* the step ends (the log of the call's writes is a new one)
UpdatePlanNotSuspended(s) ==
    /\ handler[s] = "receive"
    /\ pc[s] # "suspended"
    /\ \/ handler'[s] = "update_plan"
       \/ handler'[s] = "receive" /\ sent'[s] # sent[s]

\* the persisted state of the session
PersistedState(s) ==
    <<messages[s], questions_asked[s], needs_more_info[s], current_questions[s],
      plan_title[s], plan_content[s]>>

\* C31: update_plan called for a session id that is not suspended (never
\* started, Done or Failed) is an error outcome: the call raises, no node
\* runs, no model call is made, nothing is written by the call before the
\* error, and the persisted state stays as it was.
C31_UpdateNotSuspendedIsError ==
    [][\A s \in SessionIds :
          UpdatePlanNotSuspended(s) =>
              /\ pc'[s] = "raising"
              /\ llm'[s] = llm[s]
              /\ sent'[s] = <<>>
              /\ PersistedState(s)' = PersistedState(s)]_vars

----------------------------------------------------------------------------
\* the checkpoint store holds a PlanGenerationState for the session id: every
\* state written to a thread has the prompt as its first message
HasCheckpoint(s) == Len(messages[s]) > 0

\* C32: once a session is Done or Failed, or its connection is closed and
\* unregistered, its persisted state is discarded: the checkpoint store
\* eventually holds no entry for a finished session. No step is taken for a
\* session after its handler has exited, so by then the entry is gone.
C32_CheckpointDiscarded ==
    \A s \in SessionIds : handler[s] = "exited" => ~HasCheckpoint(s)

----------------------------------------------------------------------------
\* C33: whenever the handler of a session stops processing messages, because
\* the client disconnected or because develop_plan / update_plan raised, the
\* session's binding is removed: no binding remains in active_connections for
\* a session whose handler has exited.
C33_NoBindingAfterExit ==
    \A s \in SessionIds : handler[s] = "exited" => ~Bound(s)

----------------------------------------------------------------------------
(* WebsocketService alone: its three coroutines called for any id with any   *)
(* websocket, each followed from await to await. Nothing in the class keeps   *)
(* a caller from registering an id again while a send or a disconnect of the  *)
(* id is suspended at its await.                                              *)

\* everything but the registry and the two unfinished calls
program_vars == <<handler, sent, pc, steps, state_vars, resume_value, llm,
                  MAX_FOLLOWUP_QUESTIONS, history_vars, await_vars, prompt_vars,
                  extractor_vars>>

\* connect_websocket(session_id, websocket)
connect_websocket_call(s, w) ==
    /\ active_connections' = register(active_connections, s, w)
    /\ UNCHANGED <<service_vars, program_vars>>

\* send_message up to await websocket.send_text: the lookup found a websocket
send_message_lookup(s) ==
    /\ send_websocket[s] = None
    /\ Bound(s)
    /\ send_websocket' = [send_websocket EXCEPT ![s] = active_connections[s]]
    /\ UNCHANGED <<active_connections, close_websocket, program_vars>>

\* send_text returned
send_message_written(s) ==
    /\ send_websocket[s] # None
    /\ send_websocket' = [send_websocket EXCEPT ![s] = None]
    /\ UNCHANGED <<active_connections, close_websocket, program_vars>>

\* send_text raised: self.active_connections.pop(session_id, None)
send_message_failed(s) ==
    /\ send_websocket[s] # None
    /\ send_websocket' = [send_websocket EXCEPT ![s] = None]
    /\ active_connections' = pop(active_connections, s)
    /\ UNCHANGED <<close_websocket, program_vars>>

\* disconnect_websocket up to await websocket.close()
disconnect_websocket_lookup(s) ==
    /\ close_websocket[s] = None
    /\ Bound(s)
    /\ close_websocket' = [close_websocket EXCEPT ![s] = active_connections[s]]
    /\ UNCHANGED <<active_connections, send_websocket, program_vars>>

\* close() returned or raised: self.active_connections.pop(session_id, None)
disconnect_websocket_closed(s) ==
    /\ close_websocket[s] # None
    /\ close_websocket' = [close_websocket EXCEPT ![s] = None]
    /\ active_connections' = pop(active_connections, s)
    /\ UNCHANGED <<send_websocket, program_vars>>

NextService ==
    \E s \in SessionIds :
        \/ \E w \in Channels : connect_websocket_call(s, w)
        \/ send_message_lookup(s)
        \/ send_message_written(s)
        \/ send_message_failed(s)
        \/ disconnect_websocket_lookup(s)
        \/ disconnect_websocket_closed(s)

SpecService == Init /\ [][NextService]_vars

\* a send_message or a disconnect_websocket of the id finishes in this step;
\* the websocket it looked up
SendFinishes(s) == send_websocket[s] # None /\ send_websocket'[s] = None
DisconnectFinishes(s) == close_websocket[s] # None /\ close_websocket'[s] = None

\* C34: a failing send or an unfinished unregister removes only the channel it
\* was operating on: if the id is bound to another channel when a send or an
\* unregister that looked up an earlier channel finishes, the id is still
\* bound to that other channel afterwards.
C34_RemovesOnlyItsChannel ==
    [][\A s \in SessionIds :
          /\ (SendFinishes(s) /\ Bound(s) /\ active_connections[s] # send_websocket[s])
                 => active_connections'[s] = active_connections[s]
          /\ (DisconnectFinishes(s) /\ Bound(s)
                 /\ active_connections[s] # close_websocket[s])
                 => active_connections'[s] = active_connections[s]]_vars

====
